---- MODULE Spec2Model ----
(***************************************************************************)
(* TailorBlend PWA icon generator                                          *)
(* (BlazorConsultant/wwwroot/tools/generate-icons.py).                     *)
(*                                                                         *)
(* Four specifications share the variables below:                          *)
(*   Spec        main(): mkdir, the loop over ICON_CONFIGS, generate_icon  *)
(*               and draw_text step by step, the save and the prints;      *)
(*   SpecHex     hex_to_rgb applied to bounded strings;                    *)
(*   SpecInterp  interpolate_color applied to colour pairs and factors;    *)
(*   SpecRaster  create_gradient_background and add_rounded_corners at     *)
(*               pixel level, on small canvases.                           *)
(*                                                                         *)
(* A Python string is a sequence of one-character strings.  The floats of  *)
(* the program are modelled by exact arithmetic on the inputs where the    *)
(* IEEE double arithmetic of the program is exact or gives the same        *)
(* truncation: factors k/2^e in SpecInterp, y/size with the fixed colours  *)
(* in SpecRaster, size*0.45 and size*0.2 for the sizes of ICON_CONFIGS.    *)
(***************************************************************************)
EXTENDS Integers, Sequences, FiniteSets, TLC

VARIABLES
    pc,         \* position in main / generate_icon / draw_text
    i,          \* index of the current entry of ICON_CONFIGS (1-based)
    dirExists,  \* the icons directory exists
    files,      \* the icons directory: file name -> content written
    writeLog,   \* file names in the order img.save wrote them
    out,        \* lines printed to standard output
    img,        \* the canvas of the icon being generated
    font,       \* the font draw_text obtained ("none" before)
    fontSize,   \* font_size computed by draw_text
    tried,      \* font candidates draw_text has tried for this icon
    fontFiles,  \* system font files that load on this machine
    genCalls,   \* indices for which generate_icon was invoked
    failed,     \* "none", or the filesystem call that raised: "mkdir", "save"
    run,        \* 1 for the first run of the script, 2 for the second
    prevFiles,  \* the directory as the first run left it
    hexS,       \* SpecHex: [in, out]
    interpS,    \* SpecInterp: [a, b, num, den, out]
    raster      \* SpecRaster: [pc, size, radius, y, px, mask]

vars == <<pc, i, dirExists, files, writeLog, out, img, font, fontSize, tried,
          fontFiles, genCalls, failed, run, prevFiles, hexS, interpS, raster>>

mainVars == <<pc, i, dirExists, files, writeLog, out, img, font, fontSize,
              tried, fontFiles, genCalls, failed, run, prevFiles>>

\* Longest input string SpecHex draws.
MaxLen == 7
\* Factors of SpecInterp are k / 2^e with e <= MaxExp.
MaxExp == 3
\* Largest canvas SpecRaster draws.
MaxSize == 16

Min(a, b) == IF a <= b THEN a ELSE b
Max(a, b) == IF a >= b THEN a ELSE b

RECURSIVE Pow2(_)
Pow2(e) == IF e = 0 THEN 1 ELSE 2 * Pow2(e - 1)

(***************************************************************************)
(* Strings and hex_to_rgb                                                  *)
(***************************************************************************)
\* The outcome of a call: a value returned, or an exception raised.
ValueError == "ValueError"
Return(v) == [exc |-> "none", val |-> v]
Raise(e) == [exc |-> e, val |-> <<>>]
Pending == [exc |-> "pending", val |-> <<>>]
Idle == [exc |-> "idle", val |-> <<>>]
Returned(o) == o.exc = "none"
Raised(o) == o.exc \notin {"none", "pending", "idle"}

HexDigits == {"0", "1", "2", "3", "4", "5", "6", "7", "8", "9",
              "a", "b", "c", "d", "e", "f", "A", "B", "C", "D", "E", "F"}

HexVal(c) ==
    CASE c = "0" -> 0 [] c = "1" -> 1 [] c = "2" -> 2 [] c = "3" -> 3
      [] c = "4" -> 4 [] c = "5" -> 5 [] c = "6" -> 6 [] c = "7" -> 7
      [] c = "8" -> 8 [] c = "9" -> 9
      [] c \in {"a", "A"} -> 10 [] c \in {"b", "B"} -> 11
      [] c \in {"c", "C"} -> 12 [] c \in {"d", "D"} -> 13
      [] c \in {"e", "E"} -> 14 [] c \in {"f", "F"} -> 15

\* str.lstrip('#'): every leading '#' is removed, not only one.
RECURSIVE LStripHash(_)
LStripHash(s) ==
    IF s # <<>> /\ Head(s) = "#" THEN LStripHash(Tail(s)) ELSE s

\* s[lo:hi] for 0 <= lo <= hi: a slice is cut to the string's length.
Slice(s, lo, hi) ==
    IF lo >= Len(s) THEN <<>> ELSE SubSeq(s, lo + 1, Min(hi, Len(s)))

RECURSIVE StripSpaces(_)
StripSpaces(s) ==
    IF s # <<>> /\ Head(s) = " " THEN StripSpaces(Tail(s))
    ELSE IF s # <<>> /\ s[Len(s)] = " " THEN StripSpaces(SubSeq(s, 1, Len(s) - 1))
    ELSE s

RECURSIVE DigitsValue(_)
DigitsValue(s) ==
    IF s = <<>> THEN 0
    ELSE 16 * DigitsValue(SubSeq(s, 1, Len(s) - 1)) + HexVal(s[Len(s)])

\* int(t, 16) on a slice of at most two characters: surrounding blanks are
\* dropped, one sign is accepted, what remains must be one or two hex digits
\* (a "0x" prefix or an underscore needs three characters to be valid).
IntBase16(t) ==
    LET u == StripSpaces(t)
        signed == u # <<>> /\ Head(u) \in {"+", "-"}
        d == IF signed THEN Tail(u) ELSE u
    IN  IF d = <<>> \/ \E k \in 1..Len(d) : d[k] \notin HexDigits
        THEN Raise(ValueError)
        ELSE IF signed /\ Head(u) = "-" THEN Return(0 - DigitsValue(d))
        ELSE Return(DigitsValue(d))

hex_to_rgb(hex_color) ==
    LET h == LStripHash(hex_color)
        ch == [k \in 1..3 |-> IntBase16(Slice(h, 2 * (k - 1), 2 * (k - 1) + 2))]
    IN  IF \E k \in 1..3 : Raised(ch[k])
        THEN Raise(ValueError)
        ELSE Return(<<ch[1].val, ch[2].val, ch[3].val>>)

COLOR_START == <<"#", "7", "0", "D", "1", "C", "7">>
COLOR_END == <<"#", "5", "b", "b", "f", "b", "5">>
COLOR_TEXT == <<"#", "F", "F", "F", "F", "F", "F">>

(***************************************************************************)
(* interpolate_color                                                       *)
(***************************************************************************)
\* int(n / d) for d > 0 rounds to nearest: what round() would do.
IntOfRounded(n, d) == (2 * n + d) \div (2 * d)

\* int(n / d) for d > 0: Python's int() truncates toward zero.
IntOf(n, d) == IF n >= 0 THEN n \div d ELSE 0 - ((0 - n) \div d)

\* int(c1 + (c2 - c1) * factor) with factor = num / den.
InterpolateChannel(c1, c2, num, den) == IntOf(c1 * den + (c2 - c1) * num, den)

interpolate_color(color1, color2, num, den) ==
    LET rgb1 == hex_to_rgb(color1)
        rgb2 == hex_to_rgb(color2)
    IN  IF Raised(rgb1) \/ Raised(rgb2)
        THEN Raise(ValueError)
        ELSE Return(<<InterpolateChannel(rgb1.val[1], rgb2.val[1], num, den),
                      InterpolateChannel(rgb1.val[2], rgb2.val[2], num, den),
                      InterpolateChannel(rgb1.val[3], rgb2.val[3], num, den)>>)

(***************************************************************************)
(* Pixel canvases: create_gradient_background and add_rounded_corners      *)
(***************************************************************************)
Coords(size) == (0..(size - 1)) \X (0..(size - 1))

\* Image.new(mode, (size, size), fill): every pixel has the fill value.
NewImage(size, fill) == [p \in Coords(size) |-> fill]

\* A line that starts one pixel late, at x = 1.
LineXsFromOne(size) == 1..size

\* The columns of draw.line([(0, y), (size, y)]): both end points are drawn.
LineXs(size) == 0..size

\* draw.line on row y with an RGB fill on an RGBA image: the pixels of the
\* line that lie on the canvas get the colour at full opacity.
DrawRow(px, size, y, color) ==
    [p \in DOMAIN px |->
        IF p[2] = y /\ p[1] \in LineXs(size)
        THEN <<color[1], color[2], color[3], 255>>
        ELSE px[p]]

\* The colour of row y: interpolate_color(COLOR_START, COLOR_END, y / size).
RowColor(y, size) == interpolate_color(COLOR_START, COLOR_END, y, size).val

Clamp(v, lo, hi) == IF v < lo THEN lo ELSE IF v > hi THEN hi ELSE v

\* Whether draw.rounded_rectangle([(0, 0), (size, size)], radius, fill)
\* fills pixel (x, y).  The box includes both corner points, so it spans
\* size + 1 pixels each way.  When the corners meet (2 * radius >= size - 1)
\* the shape is the ellipse inscribed in the box; with radius 0 it is the
\* rectangle; otherwise a pixel is filled when it is within radius of the
\* nearest point of the inner rectangle [radius, size - radius]^2, which is
\* the four quarter discs plus the three rectangles between them.  (The
\* library's outline rounding can only add pixels at the rim of a disc.)
InRoundedRectangle(x, y, size, radius) ==
    /\ 0 <= x /\ x <= size /\ 0 <= y /\ y <= size
    /\ IF 2 * radius >= size - 1
       THEN (2 * x - size) * (2 * x - size) + (2 * y - size) * (2 * y - size)
                <= size * size
       ELSE IF radius = 0 THEN TRUE
       ELSE LET cx == Clamp(x, radius, size - radius)
                cy == Clamp(y, radius, size - radius)
            IN  (x - cx) * (x - cx) + (y - cy) * (y - cy) <= radius * radius

\* The mask of add_rounded_corners: a zero-filled 'L' image of the canvas
\* size with the rounded rectangle drawn in 255 (drawing is cut to the canvas).
RoundedMask(size, radius) ==
    [p \in Coords(size) |->
        IF InRoundedRectangle(p[1], p[2], size, radius) THEN 255 ELSE 0]

\* img.putalpha(mask): the alpha channel is replaced by the mask.
PutAlpha(px, mask) ==
    [p \in DOMAIN px |-> <<px[p][1], px[p][2], px[p][3], mask[p]>>]

(***************************************************************************)
(* The program: ICON_CONFIGS, generate_icon, draw_text, main               *)
(***************************************************************************)
ICON_CONFIGS ==
    << [size |-> 16, name |-> "favicon-16.png"],
       [size |-> 32, name |-> "favicon-32.png"],
       [size |-> 180, name |-> "apple-touch-icon.png"],
       [size |-> 192, name |-> "icon-192.png"],
       [size |-> 512, name |-> "icon-512.png"] >>

\* A loop that stops one entry early.
LoopHasNextOffByOne(k) == k < Len(ICON_CONFIGS)

\* "for config in ICON_CONFIGS": there is a k-th entry to generate.
LoopHasNext(k) == k <= Len(ICON_CONFIGS)

\* A font size rounded up.
FontSizeCeil(size) == (size * 45 + 99) \div 100

\* font_size = int(size * 0.45)
FontSize(size) == IntOf(size * 45, 100)

\* radius = int(size * 0.2)
CornerRadius(size) == IntOf(size * 20, 100)

\* The canvas of one icon, by what was drawn on it: its side, the drawing
\* steps applied in order, the corner radius of its alpha mask, the font and
\* the font size of its text.  (SpecRaster has the pixels.)
create_gradient_background(size) ==
    [size |-> size, ops |-> <<"gradient">>, radius |-> 0, font |-> "none",
     fontSize |-> 0]

add_rounded_corners(im, radius) ==
    [im EXCEPT !.ops = Append(@, "alpha_mask"), !.radius = radius]

\* draw.textbbox and draw.text with the font obtained.  A TrueType font was
\* loaded at font_size; ImageFont.load_default() takes no size.  Both calls
\* are taken to succeed with any font the cascade returns (Pillow releases
\* whose textbbox rejects the built-in bitmap font are not modelled).
DrawCenteredText(im, fnt, fsize) ==
    [im EXCEPT !.ops = Append(@, "text"), !.font = fnt,
               !.fontSize = IF fnt = "default" THEN 0 ELSE fsize]

\* The candidates of draw_text in the order of its nested try blocks.
FONT_CANDIDATES == <<"macOS", "Linux", "Windows", "default">>

SystemFonts == {"macOS", "Linux", "Windows"}

\* ImageFont.truetype(path, font_size) succeeds when the file loads;
\* ImageFont.load_default() is built in.
FontLoads(c) == c = "default" \/ c \in fontFiles

\* A cascade without its last except clause: a failure of the Windows path
\* propagates.
AfterFontFailureNoDefault(c) == IF c = "Windows" THEN "crashed" ELSE "font"

\* Every truetype call sits in a try whose bare except runs the next
\* candidate: draw_text stays in the cascade.
AfterFontFailure(c) == "font"

\* An encoder that stamps each file with the run that wrote it.
EncodePngStamped(im) ==
    [format |-> "PNG", width |-> im.size, height |-> im.size,
     stamp |-> run, image |-> im]

\* img.save(output_path, "PNG"): the file holds the canvas and its size.
EncodePng(im) ==
    [format |-> "PNG", width |-> im.size, height |-> im.size,
     stamp |-> 0, image |-> im]

\* What a failed save may leave at the path.
PartialFile ==
    [format |-> "partial", width |-> 0, height |-> 0, stamp |-> 0,
     image |-> [size |-> 0, ops |-> <<>>, radius |-> 0, font |-> "none",
                fontSize |-> 0]]

\* generate_icon with the text drawn before the corners are masked.
StepAfterTextFirst(step) ==
    CASE step = "gradient" -> "text"
      [] step = "render" -> "corners"
      [] step = "corners" -> "save"
      [] step = "save" -> "print"

\* The order of the statements of generate_icon.
StepAfter(step) ==
    CASE step = "gradient" -> "corners"
      [] step = "corners" -> "text"
      [] step = "render" -> "save"
      [] step = "save" -> "print"

\* An OSError caught and ignored: the loop goes on.
OSErrorSwallowed == "print"

\* Neither generate_icon nor main catches an exception of mkdir or save:
\* it ends the program.
OnOSError == "crashed"

Line(kind, name, size) == [line |-> kind, name |-> name, size |-> size]

(***************************************************************************)
(* Values of the variables a specification does not use                    *)
(***************************************************************************)
NoCanvas == [size |-> 0, ops |-> <<>>, radius |-> 0, font |-> "none",
             fontSize |-> 0]

NoFiles == [n \in {} |-> PartialFile]

MainIdle ==
    /\ pc = "idle" /\ i = 0 /\ dirExists = FALSE /\ files = NoFiles
    /\ writeLog = <<>> /\ out = <<>> /\ img = NoCanvas /\ font = "none"
    /\ fontSize = 0 /\ tried = <<>> /\ fontFiles = {} /\ genCalls = <<>>
    /\ failed = "none" /\ run = 0 /\ prevFiles = NoFiles

HexIdle == hexS = [in |-> <<>>, out |-> Idle]

InterpIdle == interpS = [a |-> <<>>, b |-> <<>>, num |-> 0, den |-> 1,
                         out |-> Idle]

RasterIdle == raster = [pc |-> "idle", size |-> 0, radius |-> 0, y |-> 0,
                        px |-> <<>>, mask |-> <<>>]

(***************************************************************************)
(* SpecHex: hex_to_rgb on every string of at most MaxLen characters over   *)
(* HexAlphabet ('#', hex digits of both cases, a non-hex letter, a sign).  *)
(***************************************************************************)
HexAlphabet == {"#", "5", "F", "g", "-"}

HexInputs == UNION {[1..n -> HexAlphabet] : n \in 0..MaxLen}

InitHex ==
    /\ MainIdle /\ InterpIdle /\ RasterIdle
    /\ hexS \in [in : HexInputs, out : {Pending}]

ApplyHexToRgb ==
    /\ hexS.out = Pending
    /\ hexS' = [hexS EXCEPT !.out = hex_to_rgb(hexS.in)]
    /\ UNCHANGED <<mainVars, interpS, raster>>

NextHex == ApplyHexToRgb

SpecHex == InitHex /\ [][NextHex]_vars

(***************************************************************************)
(* SpecInterp: interpolate_color on pairs of colour strings and factors    *)
(* num / den in [0, 1] with den a power of two.                            *)
(***************************************************************************)
Palette == {COLOR_START, COLOR_END, COLOR_TEXT,
            <<"0", "0", "0", "0", "0", "0">>, <<"1", "0", "8", "0", "f", "e">>}

Factors == {f \in [num : 0..Pow2(MaxExp), den : {Pow2(e) : e \in 0..MaxExp}] :
                f.num <= f.den}

InitInterp ==
    /\ MainIdle /\ HexIdle /\ RasterIdle
    /\ \E a \in Palette, b \in Palette, f \in Factors :
           interpS = [a |-> a, b |-> b, num |-> f.num, den |-> f.den,
                      out |-> Pending]

ApplyInterpolate ==
    /\ interpS.out = Pending
    /\ interpS' = [interpS EXCEPT
                     !.out = interpolate_color(interpS.a, interpS.b,
                                               interpS.num, interpS.den)]
    /\ UNCHANGED <<mainVars, hexS, raster>>

NextInterp == ApplyInterpolate

SpecInterp == InitInterp /\ [][NextInterp]_vars

(***************************************************************************)
(* Claims about hex_to_rgb and interpolate_color                           *)
(***************************************************************************)
\* An optional single leading '#', then exactly six hexadecimal digits.
WellFormedHex(s) ==
    LET t == IF s # <<>> /\ Head(s) = "#" THEN Tail(s) ELSE s
    IN  Len(t) = 6 /\ \A k \in 1..6 : t[k] \in HexDigits

\* C3: hex_to_rgb fails with an error for every input that, after removing an
\* optional single leading '#', is not exactly six hexadecimal digits; it
\* returns a colour triple only for well-formed inputs.
C3_MalformedInputFails ==
    /\ (Returned(hexS.out) \/ Raised(hexS.out)) /\ ~WellFormedHex(hexS.in)
           => hexS.out = Raise(ValueError)
    /\ Returned(hexS.out) => WellFormedHex(hexS.in)

\* C4: interpolate(A, B, 0) = A, interpolate(A, B, 1) = B, and for every factor
\* in [0, 1] each result channel r is a + (b - a) * factor truncated, that is
\* r <= a + (b - a) * factor < r + 1, and lies between the two endpoint
\* channels, hence in 0..255.
C4_InterpolateTruncatesWithinEndpoints ==
    (Returned(interpS.out) \/ Raised(interpS.out)) =>
        LET A == hex_to_rgb(interpS.a).val
            B == hex_to_rgb(interpS.b).val
            n == interpS.num
            d == interpS.den
            r == interpS.out.val
        IN  /\ Returned(interpS.out)
            /\ (n = 0 => r = A)
            /\ (n = d => r = B)
            /\ \A k \in 1..3 :
                   /\ r[k] * d <= A[k] * d + (B[k] - A[k]) * n
                   /\ A[k] * d + (B[k] - A[k]) * n < (r[k] + 1) * d
                   /\ Min(A[k], B[k]) <= r[k] /\ r[k] <= Max(A[k], B[k])
                   /\ r[k] \in 0..255

\* C4 witness: a factor strictly inside (0, 1) was applied to two different
\* colours and some channel's exact value is not an integer.
C4_Witness ==
    /\ Returned(interpS.out)
    /\ 0 < interpS.num /\ interpS.num < interpS.den
    /\ \E k \in 1..3 :
           LET A == hex_to_rgb(interpS.a).val
               B == hex_to_rgb(interpS.b).val
           IN  ((B[k] - A[k]) * interpS.num) % interpS.den # 0

(***************************************************************************)
(* SpecRaster: create_gradient_background(size), then                      *)
(* add_rounded_corners(img, radius), pixel by pixel, for every size up to  *)
(* MaxSize and every integer radius from 0 to size / 2.                    *)
(***************************************************************************)
InitRaster ==
    /\ MainIdle /\ HexIdle /\ InterpIdle
    /\ \E size \in 1..MaxSize : \E radius \in 0..(size \div 2) :
           raster = [pc |-> "gradient", size |-> size, radius |-> radius,
                     y |-> 0, px |-> NewImage(size, <<0, 0, 0, 0>>),
                     mask |-> <<>>]

\* One iteration of "for y in range(size)".
RasterGradientRow ==
    /\ raster.pc = "gradient"
    /\ raster.y < raster.size
    /\ raster' = [raster EXCEPT
                    !.px = DrawRow(raster.px, raster.size, raster.y,
                                   RowColor(raster.y, raster.size)),
                    !.y = raster.y + 1]
    /\ UNCHANGED <<mainVars, hexS, interpS>>

\* The loop is over: create_gradient_background returns the canvas.
RasterGradientReturn ==
    /\ raster.pc = "gradient"
    /\ raster.y = raster.size
    /\ raster' = [raster EXCEPT !.pc = "corners"]
    /\ UNCHANGED <<mainVars, hexS, interpS>>

RasterAddRoundedCorners ==
    /\ raster.pc = "corners"
    /\ LET mask == RoundedMask(raster.size, raster.radius)
       IN  raster' = [raster EXCEPT !.mask = mask,
                                    !.px = PutAlpha(raster.px, mask),
                                    !.pc = "masked"]
    /\ UNCHANGED <<mainVars, hexS, interpS>>

NextRaster ==
    \/ RasterGradientRow
    \/ RasterGradientReturn
    \/ RasterAddRoundedCorners

SpecRaster == InitRaster /\ [][NextRaster]_vars

(***************************************************************************)
(* Claims about the pixel canvases                                         *)
(***************************************************************************)
\* C2: for every size and every radius with 0 < radius <= size / 2 the mask
\* of add_rounded_corners is 0 at the four corner pixels (0,0), (size-1,0),
\* (0,size-1), (size-1,size-1) and 255 at the canvas centre pixel.
C2_CornersTransparentCentreOpaque ==
    (raster.pc = "masked" /\ raster.radius > 0) =>
        LET n == raster.size
        IN  /\ raster.mask[<<0, 0>>] = 0
            /\ raster.mask[<<n - 1, 0>>] = 0
            /\ raster.mask[<<0, n - 1>>] = 0
            /\ raster.mask[<<n - 1, n - 1>>] = 0
            /\ raster.mask[<<n \div 2, n \div 2>>] = 255

Init ==
    /\ HexIdle /\ InterpIdle /\ RasterIdle
    /\ pc = "main" /\ i = 0
    /\ dirExists \in BOOLEAN
    /\ files = NoFiles /\ writeLog = <<>> /\ out = <<>>
    /\ img = NoCanvas /\ font = "none" /\ fontSize = 0 /\ tried = <<>>
    /\ fontFiles \in SUBSET SystemFonts
    /\ genCalls = <<>> /\ failed = "none"
    /\ run = 1 /\ prevFiles = NoFiles

config == ICON_CONFIGS[i]

\* icons_dir.mkdir(exist_ok=True) and the two prints after it.
MainMkdirOk ==
    /\ pc = "main"
    /\ dirExists' = TRUE
    /\ out' = out \o <<Line("icons_directory", "", 0), Line("generating", "", 0)>>
    /\ i' = 1
    /\ pc' = "loop"
    /\ UNCHANGED <<files, writeLog, img, font, fontSize, tried, fontFiles,
                   genCalls, failed, run, prevFiles, hexS, interpS, raster>>

\* mkdir raises (no parent directory, no permission): nothing was printed.
MainMkdirFail ==
    /\ pc = "main"
    /\ ~dirExists
    /\ failed' = "mkdir"
    /\ pc' = OnOSError
    /\ UNCHANGED <<i, dirExists, files, writeLog, out, img, font, fontSize,
                   tried, fontFiles, genCalls, run, prevFiles, hexS, interpS,
                   raster>>

\* The loop calls generate_icon(config, icons_dir).
MainLoopNext ==
    /\ pc = "loop"
    /\ LoopHasNext(i)
    /\ genCalls' = Append(genCalls, i)
    /\ img' = NoCanvas /\ font' = "none" /\ fontSize' = 0 /\ tried' = <<>>
    /\ pc' = "gradient"
    /\ UNCHANGED <<i, dirExists, files, writeLog, out, fontFiles, failed, run,
                   prevFiles, hexS, interpS, raster>>

\* img = create_gradient_background(size)
GenGradient ==
    /\ pc = "gradient"
    /\ img' = create_gradient_background(config.size)
    /\ pc' = StepAfter("gradient")
    /\ UNCHANGED <<i, dirExists, files, writeLog, out, font, fontSize, tried,
                   fontFiles, genCalls, failed, run, prevFiles, hexS, interpS,
                   raster>>

\* radius = int(size * 0.2); img = add_rounded_corners(img, radius)
GenCorners ==
    /\ pc = "corners"
    /\ img' = add_rounded_corners(img, CornerRadius(config.size))
    /\ pc' = StepAfter("corners")
    /\ UNCHANGED <<i, dirExists, files, writeLog, out, font, fontSize, tried,
                   fontFiles, genCalls, failed, run, prevFiles, hexS, interpS,
                   raster>>

\* draw_text(img, "TB", size) up to the font cascade.
DrawTextBegin ==
    /\ pc = "text"
    /\ fontSize' = FontSize(config.size)
    /\ pc' = "font"
    /\ UNCHANGED <<i, dirExists, files, writeLog, out, img, font, tried,
                   fontFiles, genCalls, failed, run, prevFiles, hexS, interpS,
                   raster>>

NextCandidate == FONT_CANDIDATES[Len(tried) + 1]

\* The candidate loads: the cascade is left with this font.
TryFontOk ==
    /\ pc = "font"
    /\ Len(tried) < Len(FONT_CANDIDATES)
    /\ FontLoads(NextCandidate)
    /\ tried' = Append(tried, NextCandidate)
    /\ font' = NextCandidate
    /\ pc' = "render"
    /\ UNCHANGED <<i, dirExists, files, writeLog, out, img, fontSize,
                   fontFiles, genCalls, failed, run, prevFiles, hexS, interpS,
                   raster>>

\* The candidate raises: the except clause runs the next one.
TryFontFail ==
    /\ pc = "font"
    /\ Len(tried) < Len(FONT_CANDIDATES)
    /\ ~FontLoads(NextCandidate)
    /\ tried' = Append(tried, NextCandidate)
    /\ pc' = AfterFontFailure(NextCandidate)
    /\ UNCHANGED <<i, dirExists, files, writeLog, out, img, font, fontSize,
                   fontFiles, genCalls, failed, run, prevFiles, hexS, interpS,
                   raster>>

\* textbbox, the centred position, draw.text in COLOR_TEXT.
RenderText ==
    /\ pc = "render"
    /\ img' = DrawCenteredText(img, font, fontSize)
    /\ pc' = StepAfter("render")
    /\ UNCHANGED <<i, dirExists, files, writeLog, out, font, fontSize, tried,
                   fontFiles, genCalls, failed, run, prevFiles, hexS, interpS,
                   raster>>

\* img.save(output_dir / name, "PNG") writes the file.
SaveOk ==
    /\ pc = "save"
    /\ files' = (config.name :> EncodePng(img)) @@ files
    /\ writeLog' = Append(writeLog, config.name)
    /\ pc' = StepAfter("save")
    /\ UNCHANGED <<i, dirExists, out, img, font, fontSize, tried, fontFiles,
                   genCalls, failed, run, prevFiles, hexS, interpS, raster>>

\* img.save raises: the path holds nothing new, or a partial file.
SaveFail ==
    /\ pc = "save"
    /\ \E leftover \in BOOLEAN :
           files' = IF leftover THEN (config.name :> PartialFile) @@ files
                    ELSE files
    /\ failed' = "save"
    /\ pc' = OnOSError
    /\ UNCHANGED <<i, dirExists, writeLog, out, img, font, fontSize, tried,
                   fontFiles, genCalls, run, prevFiles, hexS, interpS, raster>>

\* print("Generated ..."), generate_icon returns, the loop advances.
PrintGenerated ==
    /\ pc = "print"
    /\ out' = Append(out, Line("generated", config.name, config.size))
    /\ i' = i + 1
    /\ img' = NoCanvas
    /\ pc' = "loop"
    /\ UNCHANGED <<dirExists, files, writeLog, font, fontSize, tried,
                   fontFiles, genCalls, failed, run, prevFiles, hexS, interpS,
                   raster>>

\* The loop is over: the two summary prints.
MainFinish ==
    /\ pc = "loop"
    /\ ~LoopHasNext(i)
    /\ out' = out \o <<Line("all_generated", "", 0), Line("location", "", 0)>>
    /\ pc' = "done"
    /\ UNCHANGED <<i, dirExists, files, writeLog, img, font, fontSize, tried,
                   fontFiles, genCalls, failed, run, prevFiles, hexS, interpS,
                   raster>>

\* The script is run again on the emptied output directory, on the same
\* machine (the same font files).
Rerun ==
    /\ pc = "done"
    /\ run = 1
    /\ prevFiles' = files
    /\ files' = NoFiles /\ writeLog' = <<>> /\ out' = <<>>
    /\ genCalls' = <<>>
    /\ i' = 0 /\ img' = NoCanvas /\ font' = "none" /\ fontSize' = 0
    /\ tried' = <<>>
    /\ run' = 2
    /\ pc' = "main"
    /\ UNCHANGED <<dirExists, fontFiles, failed, hexS, interpS, raster>>

Next ==
    \/ MainMkdirOk
    \/ MainMkdirFail
    \/ MainLoopNext
    \/ GenGradient
    \/ GenCorners
    \/ DrawTextBegin
    \/ TryFontOk
    \/ TryFontFail
    \/ RenderText
    \/ SaveOk
    \/ SaveFail
    \/ PrintGenerated
    \/ MainFinish
    \/ Rerun

Spec == Init /\ [][Next]_vars

(***************************************************************************)
(* Claims about main, generate_icon and draw_text                          *)
(***************************************************************************)
FiveNames == <<"favicon-16.png", "favicon-32.png", "apple-touch-icon.png",
               "icon-192.png", "icon-512.png">>

FiveSizes == <<16, 32, 180, 192, 512>>

Range(f) == {f[k] : k \in DOMAIN f}

IsPng(file, size) ==
    file.format = "PNG" /\ file.width = size /\ file.height = size

\* C1: when main() runs to completion, each of the five icons (16 ->
\* favicon-16.png, 32 -> favicon-32.png, 180 -> apple-touch-icon.png, 192 ->
\* icon-192.png, 512 -> icon-512.png) was written as a PNG of size x size
\* pixels, in that order, and no other file was written.
C1_FiveIconsWrittenInOrder ==
    pc = "done" =>
        /\ writeLog = FiveNames
        /\ DOMAIN files = Range(FiveNames)
        /\ \A k \in 1..5 : IsPng(files[FiveNames[k]], FiveSizes[k])

\* C1 witness: a first run that reached the end of main().
C1_Witness == pc = "done" /\ run = 1 /\ failed = "none" /\ Len(writeLog) = 5

\* C5: draw_text tries macOS, Linux, Windows, default in that order, takes the
\* first candidate that loads and tries none after it; whatever system fonts
\* fail, a font is obtained, no failure of a font reaches the caller, and a
\* run that ends has written all five files.
C5_FontFallbackNeverFails ==
    /\ Len(tried) <= 4
    /\ \A k \in 1..Len(tried) :
           tried[k] = <<"macOS", "Linux", "Windows", "default">>[k]
    /\ font # "none" =>
           /\ tried # <<>> /\ font = tried[Len(tried)]
           /\ font \in fontFiles \cup {"default"}
           /\ \A k \in 1..(Len(tried) - 1) : tried[k] \notin fontFiles
    /\ font = "none" => \A k \in 1..Len(tried) : tried[k] \notin fontFiles
    /\ pc \in {"render", "save", "print"} => font # "none"
    /\ pc = "font" => (font = "none" /\ Len(tried) < 4)
    /\ pc = "crashed" => failed # "none"
    /\ pc = "done" => Len(writeLog) = 5

\* C5 witness: no system font loads and the run has written all five icons
\* with the built-in font.
C5_Witness ==
    /\ fontFiles = {} /\ pc = "done" /\ Len(writeLog) = 5
    /\ tried = <<"macOS", "Linux", "Windows", "default">>
    /\ \A n \in DOMAIN files : files[n].image.font = "default"

\* C6: a filesystem failure ends the batch.  If mkdir fails no icon is
\* generated; if the save of the i-th icon fails, generate_icon is invoked for
\* no later entry, no later file is written, the files of the earlier entries
\* stay as written, and the final summary is never printed.
C6_FilesystemFailureEndsBatch ==
    failed # "none" =>
        /\ pc = "crashed"
        /\ ~ENABLED Next
        /\ \A k \in 1..Len(out) : out[k].line \notin {"all_generated", "location"}
        /\ failed = "mkdir" =>
               genCalls = <<>> /\ writeLog = <<>> /\ DOMAIN files = {}
        /\ failed = "save" =>
               /\ i \in 1..5
               /\ genCalls = [k \in 1..i |-> k]
               /\ writeLog = SubSeq(FiveNames, 1, i - 1)
               /\ \A k \in 1..(i - 1) : IsPng(files[FiveNames[k]], FiveSizes[k])
               /\ DOMAIN files \subseteq {FiveNames[k] : k \in 1..i}
               /\ Len(SelectSeq(out, LAMBDA l : l.line = "generated")) = i - 1

\* C6 witness: the save of the third icon failed after two icons were written.
C6_Witness ==
    /\ failed = "save" /\ i = 3 /\ writeLog = <<"favicon-16.png", "favicon-32.png">>

\* The font the cascade ends with on a machine with these font files.
FirstLoadable ==
    IF "macOS" \in fontFiles THEN "macOS"
    ELSE IF "Linux" \in fontFiles THEN "Linux"
    ELSE IF "Windows" \in fontFiles THEN "Windows"
    ELSE "default"

SizeOfName(n) == FiveSizes[CHOOSE k \in 1..5 : FiveNames[k] = n]

\* The file of an icon as a function of its size and of the font alone.
ExpectedFile(size, fnt) ==
    [format |-> "PNG", width |-> size, height |-> size, stamp |-> 0,
     image |-> [size |-> size, ops |-> <<"gradient", "alpha_mask", "text">>,
                radius |-> (size * 2) \div 10, font |-> fnt,
                fontSize |-> IF fnt = "default" THEN 0 ELSE (size * 9) \div 20]]

\* C7: the generator is deterministic.  Every file written depends only on
\* its icon's size, the fixed constants and the font chosen, never on the
\* icons generated before it, and a second run on the emptied directory with
\* the same fonts leaves the same files as the first.
C7_Deterministic ==
    /\ \A n \in DOMAIN files :
           files[n].format = "PNG" =>
               files[n] = ExpectedFile(SizeOfName(n), FirstLoadable)
    /\ (run = 2 /\ pc = "done") => files = prevFiles

\* C7 witness: the second run completed after a completed first run.
C7_Witness ==
    /\ run = 2 /\ pc = "done" /\ DOMAIN prevFiles = Range(FiveNames)
    /\ DOMAIN files = Range(FiveNames)

\* C9: in generate_icon the steps are gradient, alpha mask, text, save, each
\* once and in that order: the text is never drawn before the mask replaced
\* the alpha channel, the file is never saved before the text is drawn, and
\* the completion line of an icon is printed only after its save succeeded.
C9_StepsInOrder ==
    /\ pc = "corners" => img.ops = <<"gradient">>
    /\ pc \in {"text", "font", "render"} => img.ops = <<"gradient", "alpha_mask">>
    /\ pc \in {"save", "print"} => img.ops = <<"gradient", "alpha_mask", "text">>
    /\ \A n \in DOMAIN files :
           files[n].format = "PNG" =>
               files[n].image.ops = <<"gradient", "alpha_mask", "text">>
    /\ \A k \in 1..Len(out) :
           out[k].line = "generated" =>
               /\ out[k].name \in Range(writeLog)
               /\ IsPng(files[out[k].name], out[k].size)
    /\ Len(SelectSeq(out, LAMBDA l : l.line = "generated"))
           \in {Len(writeLog), Len(writeLog) - 1}

\* C9 witness: the last icon was saved and its completion line is due.
C9_Witness ==
    /\ pc = "print" /\ i = 5 /\ Len(writeLog) = 5
    /\ Len(SelectSeq(out, LAMBDA l : l.line = "generated")) = 4

\* C10: for each of the five sizes the font size draw_text requests is
\* round(0.45 * size), the integer nearest to 0.45 * size, and the radius
\* generate_icon passes to add_rounded_corners is in 0..size/2.
C10_FontSizeAndRadius ==
    /\ pc \in {"font", "render"} =>
           /\ config.size \in Range(FiveSizes)
           /\ 100 * fontSize - 45 * config.size <= 50
           /\ 45 * config.size - 100 * fontSize <= 50
    /\ (pc \in {"text", "font", "render", "save", "print"}) =>
           /\ img.size \in Range(FiveSizes)
           /\ 0 <= img.radius /\ 2 * img.radius <= img.size
           /\ 5 * img.radius <= img.size /\ img.size < 5 * (img.radius + 1)

\* C10 witness: the text of the 512-pixel icon is about to be drawn at font
\* size 230 on a canvas masked with radius 102.
C10_Witness ==
    /\ pc = "render" /\ config.size = 512 /\ fontSize = 230 /\ img.radius = 102

====
